---- MODULE Spec2Model ----
(***************************************************************************)
(* A model of streamLitDemo.py: the bot-to-bot negotiation driver.         *)
(*                                                                         *)
(* A text (a Python str) is a sequence of one-character strings.  Python's *)
(* None is NoText where a str is expected and the string "None" where a    *)
(* label (CLIENT_MODE, the result of detect_stop) is expected.             *)
(*                                                                         *)
(* One script execution that takes the Start Run branch is the action      *)
(* StartRun followed by one ATurn or BTurn per iteration of the for loop   *)
(* (the blocking model invocation is the only suspension point) and by     *)
(* Finish (line 237).  Widget interaction is modelled between script       *)
(* executions only (pc = "idle").                                          *)
(***************************************************************************)
EXTENDS Integers, Sequences, FiniteSets, TLC

VARIABLES
    \* configuration: environment and widget values (lines 7-29, 108-141, 172)
    api_key, CLIENT_MODE, a_name, b_name, a_sys, b_sys, brief,
    first_speaker, max_turns, delay_s,
    \* st.session_state (lines 144-147)
    transcript, running,
    \* script locals of the run handler (lines 168-169, 182-186, 192, 195)
    a_ctx, b_ctx, last_a, last_b, next_speaker, t, msgs,
    \* control: where the script is, how the loop was left, last message shown
    pc, cause, ui_msg,
    \* history of the current run: model invocations made, texts returned,
    \* pauses taken
    calls, generated, slept,
    \* the download button shown by the current script execution (lines 245-255)
    download,
    \* inputs and results of the helper functions applied on their own
    p_text, p_text2, p_ctx, p_partner, p_stop, p_stop2, p_built

config == <<api_key, CLIENT_MODE, a_name, b_name, a_sys, b_sys, brief,
            first_speaker, max_turns, delay_s>>
session == <<transcript, running>>
locals == <<a_ctx, b_ctx, last_a, last_b, next_speaker, t, msgs>>
control == <<pc, cause, ui_msg>>
history == <<calls, generated, slept>>
sched == <<config, session, locals, control, history, download>>
pure == <<p_text, p_text2, p_ctx, p_partner, p_stop, p_stop2, p_built>>
vars == <<sched, pure>>

----------------------------------------------------------------------------
(* Bounds and program constants *)

\* largest "Max turns" value explored (the widget allows up to 50)
MaxTurns == 4
\* min_value of the "Max turns" number_input
MinTurns == 2

None == "None"
NoText == <<"<None>">>
Unset == "unset"
NoDownload == [kind |-> "none", data |-> <<>>]

----------------------------------------------------------------------------
(* Texts *)

AGREEMENT_REACHED ==
    <<"A","G","R","E","E","M","E","N","T"," ","R","E","A","C","H","E","D",":">>
NO_DEAL == <<"N","O"," ","D","E","A","L",":">>

agreement_lower ==
    <<"a","g","r","e","e","m","e","n","t"," ","r","e","a","c","h","e","d",":">>
Agreement_Mixed ==
    <<"A","g","r","e","e","m","e","n","t"," ","R","e","a","c","h","e","d",":">>
no_deal_lower == <<"n","o"," ","d","e","a","l",":">>
No_Deal_Mixed == <<"N","o"," ","D","e","a","l",":">>

\* str.upper() on one character: full case mapping, so one character may
\* become two
UpperTable ==
    [c \in {"a","c","d","e","g","h","k","l","m","n","o","r","t"} |->
        CASE c = "a" -> <<"A">> [] c = "c" -> <<"C">> [] c = "d" -> <<"D">>
          [] c = "e" -> <<"E">> [] c = "g" -> <<"G">> [] c = "h" -> <<"H">>
          [] c = "k" -> <<"K">> [] c = "l" -> <<"L">> [] c = "m" -> <<"M">>
          [] c = "n" -> <<"N">> [] c = "o" -> <<"O">> [] c = "r" -> <<"R">>
          [] c = "t" -> <<"T">>]

upper_char(c) ==
    IF c \in DOMAIN UpperTable THEN UpperTable[c]
    ELSE IF c = "ß" THEN <<"S","S">>
    ELSE <<c>>

RECURSIVE upper(_)
upper(text) ==
    IF text = <<>> THEN <<>> ELSE upper_char(Head(text)) \o upper(Tail(text))

Whitespace == {" ", "\n"}

RECURSIVE lstrip(_)
lstrip(text) ==
    IF text # <<>> /\ Head(text) \in Whitespace THEN lstrip(Tail(text)) ELSE text

RECURSIVE rstrip(_)
rstrip(text) ==
    IF text # <<>> /\ text[Len(text)] \in Whitespace
    THEN rstrip(SubSeq(text, 1, Len(text) - 1))
    ELSE text

\* str.strip()
strip(text) == rstrip(lstrip(text))

\* needle in hay, for two str
Contains(hay, needle) ==
    \E i \in 1..(Len(hay) - Len(needle) + 1) :
        SubSeq(hay, i, i + Len(needle) - 1) = needle

\* bool(x) for a value that is None or a str
Truthy(x) == x # NoText /\ x # <<>>

----------------------------------------------------------------------------
(* Helpers (lines 32-94) *)

\* What the OpenAI endpoint does with one request: it fails, or it returns a
\* message content.
Plain == <<"o","k">>
RawCompletions ==
    { Plain,
      <<" ">>,
      <<" ">> \o Plain \o <<"\n">>,
      agreement_lower \o Plain,
      Plain \o No_Deal_Mixed \o <<" ">>,
      NO_DEAL \o Agreement_Mixed }
Outcomes ==
    {[ok |-> FALSE, content |-> <<>>]}
        \cup {[ok |-> TRUE, content |-> c] : c \in RawCompletions}

\* call_llm: raises (no client, or the request fails), or returns the
\* stripped content
call_llm(mode, outcome) ==
    IF mode \in {"new", "legacy"} /\ outcome.ok
    THEN [raised |-> FALSE, text |-> strip(outcome.content)]
    ELSE [raised |-> TRUE, text |-> <<>>]

\* default_system_prompt: the template's fixed parts around the three fields
default_system_prompt(name, role, culture) ==
    <<"You are ", name, ", a negotiation agent. Role: ", role,
      ".\nCultural profile: ", culture,
      ".\nGoal: reach a mutually acceptable agreement ... NO DEAL: <reason>.">>

\* x or y, for a str x
OrElse(x, y) == IF x # <<>> THEN x ELSE y

detect_stop_no_upper(text) ==
    IF Contains(text, AGREEMENT_REACHED) THEN "agreement"
    ELSE IF Contains(text, NO_DEAL) THEN "no_deal"
    ELSE None

detect_stop_no_deal_first(text) ==
    LET u == upper(text) IN
    IF Contains(u, NO_DEAL) THEN "no_deal"
    ELSE IF Contains(u, AGREEMENT_REACHED) THEN "agreement"
    ELSE None

detect_stop(text) ==
    LET u == upper(text) IN
    IF Contains(u, AGREEMENT_REACHED) THEN "agreement"
    ELSE IF Contains(u, NO_DEAL) THEN "no_deal"
    ELSE None

make_agent_context(sys_prompt, brief_text) ==
    << [role |-> "system", content |-> sys_prompt],
       [role |-> "user", content |-> brief_text] >>

build_turn_messages_not_none(agent_ctx, partner_last_utterance) ==
    [msgs |-> IF partner_last_utterance # NoText
              THEN Append(agent_ctx,
                          [role |-> "user", content |-> partner_last_utterance])
              ELSE agent_ctx,
     ctx |-> agent_ctx]

build_turn_messages_alias(agent_ctx, partner_last_utterance) ==
    LET out == IF Truthy(partner_last_utterance)
               THEN Append(agent_ctx,
                           [role |-> "user", content |-> partner_last_utterance])
               ELSE agent_ctx
    IN [msgs |-> out, ctx |-> out]

\* The result of build_turn_messages (msgs) and the list its argument refers
\* to after the call (ctx): msgs is a copy, so the argument is left as it was.
build_turn_messages(agent_ctx, partner_last_utterance) ==
    [msgs |-> IF Truthy(partner_last_utterance)
              THEN Append(agent_ctx,
                          [role |-> "user", content |-> partner_last_utterance])
              ELSE agent_ctx,
     ctx |-> agent_ctx]

----------------------------------------------------------------------------
(* Configuration (lines 108-141, 164-172) *)

Names == {"Aiko", "Blake"}
A_ROLE == "Seller for premium sensor modules"
B_ROLE == "Procurement lead seeking volume discount"
A_CULTURE == "High-context, relationship-first"
B_CULTURE == "Low-context, direct"
SysPrompts == { <<" ">>, <<" ", "b", "e", " ", "f", "a", "i", "r", "\n">> }
Briefs == { <<>>, <<"Q", "4">> }
\* the delay slider, in tenths of a second
Delays == {0, 20}
Modes == {"new", "legacy", None}

a_system == OrElse(strip(a_sys), default_system_prompt(a_name, A_ROLE, A_CULTURE))
b_system == OrElse(strip(b_sys), default_system_prompt(b_name, B_ROLE, B_CULTURE))
LabelledBrief == <<"Negotiation brief:\n">> \o brief

----------------------------------------------------------------------------
(* The script: session state, Reset, Start Run, the turn loop (lines 144-237) *)

Entry(who, text) == [speaker |-> "assistant", who |-> who, text |-> text]

Record_prepend(entry) == transcript' = <<entry>> \o transcript

\* st.session_state.transcript.append(entry)
Record(entry) == transcript' = Append(transcript, entry)

ClientReady_always == TRUE

\* not (CLIENT_MODE is None), line 175
ClientReady == CLIENT_MODE # None

LoopContinues_rounds(i) == i < 2 * max_turns

\* for t in range(max_turns): is there an iteration i
LoopContinues(i) == i < max_turns

StopBreaks_agreement_only(stop) == stop = "agreement"

StopBreaks_no_deal_only(stop) == stop = "no_deal"

\* if stop: (lines 207, 227)
StopBreaks(stop) == stop # None

IsATurn_by_parity == (first_speaker = a_name) = (t % 2 = 0)

\* if next_speaker == a_name: (line 193)
IsATurn == next_speaker = a_name

ClearTranscript_keeps == transcript' = transcript

\* st.session_state.transcript = [] (line 189)
ClearTranscript == transcript' = <<>>

\* The state every script execution starts from when nothing was clicked
\* and the session is new.
Idle ==
    /\ transcript = <<>>
    /\ running = FALSE
    /\ a_ctx = make_agent_context(a_system, LabelledBrief)
    /\ b_ctx = make_agent_context(b_system, LabelledBrief)
    /\ last_a = NoText
    /\ last_b = NoText
    /\ next_speaker = first_speaker
    /\ t = 0
    /\ msgs = <<>>
    /\ pc = "idle"
    /\ cause = "none"
    /\ ui_msg = "none"
    /\ calls = 0
    /\ generated = <<>>
    /\ slept = 0
    /\ download = NoDownload

PureIdle ==
    /\ p_text = <<>>
    /\ p_text2 = <<>>
    /\ p_ctx = <<>>
    /\ p_partner = NoText
    /\ p_stop = Unset
    /\ p_stop2 = Unset
    /\ p_built = [msgs |-> <<>>, ctx |-> <<>>]

Init ==
    /\ api_key \in BOOLEAN
    /\ CLIENT_MODE \in (IF api_key THEN Modes ELSE {None})
    /\ a_name \in Names
    /\ b_name \in Names
    /\ a_sys \in SysPrompts
    /\ b_sys \in SysPrompts
    /\ brief \in Briefs
    /\ first_speaker \in {a_name, b_name}
    /\ max_turns \in MinTurns..MaxTurns
    /\ delay_s \in Delays
    /\ Idle
    /\ PureIdle

\* lines 7-11: no key, the script stops before anything else
MissingKey ==
    /\ ~api_key
    /\ ui_msg' = "Missing OpenAI API key"
    /\ download' = NoDownload
    /\ UNCHANGED <<config, session, locals, pc, cause, history, pure>>

\* lines 158-161
Reset ==
    /\ api_key
    /\ pc = "idle"
    /\ transcript' = <<>>
    /\ running' = FALSE
    /\ ui_msg' = "Session reset."
    /\ download' = NoDownload
    /\ UNCHANGED <<config, locals, pc, cause, history, pure>>

\* lines 174-176
StartRunRefused ==
    /\ api_key
    /\ pc = "idle"
    /\ ~ClientReady
    /\ ui_msg' = "OpenAI client not initialized"
    /\ download' = NoDownload
    /\ UNCHANGED <<config, session, locals, pc, cause, history, pure>>

\* lines 164-169, 174-189
StartRun ==
    /\ api_key
    /\ pc = "idle"
    /\ ClientReady
    /\ a_ctx' = make_agent_context(a_system, LabelledBrief)
    /\ b_ctx' = make_agent_context(b_system, LabelledBrief)
    /\ running' = TRUE
    /\ ui_msg' = "Run started"
    /\ last_a' = NoText
    /\ last_b' = NoText
    /\ next_speaker' = first_speaker
    /\ ClearTranscript
    /\ t' = 0
    /\ msgs' = <<>>
    /\ pc' = "loop"
    /\ cause' = "none"
    /\ calls' = 0
    /\ generated' = <<>>
    /\ slept' = 0
    /\ download' = NoDownload
    /\ UNCHANGED <<config, pure>>

EndOfIteration_delay_times_out ==
    /\ slept' = IF delay_s > 0 THEN slept + 1 ELSE slept
    /\ t' = t + 1
    /\ IF LoopContinues(t + 1) /\ delay_s = 0
       THEN pc' = "loop" /\ cause' = cause
       ELSE pc' = "halted" /\ cause' = "turn_limit"

\* lines 234-235, then the loop header (line 192)
EndOfIteration ==
    /\ slept' = IF delay_s > 0 THEN slept + 1 ELSE slept
    /\ t' = t + 1
    /\ IF LoopContinues(t + 1)
       THEN pc' = "loop" /\ cause' = cause
       ELSE pc' = "halted" /\ cause' = "turn_limit"

\* a break out of the loop
Break(why) ==
    /\ pc' = "halted"
    /\ cause' = why
    /\ UNCHANGED <<t, slept, next_speaker>>

StopMessage(stop) ==
    IF stop = "agreement" THEN "Stop condition: AGREEMENT"
    ELSE "Stop condition: NO_DEAL"

AError_retry ==
    /\ ui_msg' = "LLM error (A)"
    /\ UNCHANGED <<pc, cause, t, slept, next_speaker>>
    /\ UNCHANGED <<transcript, generated, last_a>>

\* lines 198-200
AError ==
    /\ ui_msg' = "LLM error (A)"
    /\ Break("transport_error")
    /\ UNCHANGED <<transcript, generated, last_a>>

AContinues_forgets(a_out) ==
    /\ last_a' = last_a
    /\ next_speaker' = b_name

AContinues_keeps_turn(a_out) ==
    /\ last_a' = a_out
    /\ next_speaker' = a_name

\* lines 211-212
AContinues(a_out) ==
    /\ last_a' = a_out
    /\ next_speaker' = b_name

ASpoke_budget_first(a_out) ==
    /\ Record(Entry(a_name, a_out))
    /\ generated' = Append(generated, a_out)
    /\ LET stop == detect_stop(a_out) IN
       IF StopBreaks(stop) /\ LoopContinues(t + 1)
       THEN /\ ui_msg' = StopMessage(stop)
            /\ Break(stop)
            /\ UNCHANGED last_a
       ELSE /\ AContinues(a_out)
            /\ EndOfIteration
            /\ UNCHANGED ui_msg

\* lines 202-212, 234-235
ASpoke(a_out) ==
    /\ Record(Entry(a_name, a_out))
    /\ generated' = Append(generated, a_out)
    /\ LET stop == detect_stop(a_out) IN
       IF StopBreaks(stop)
       THEN /\ ui_msg' = StopMessage(stop)
            /\ Break(stop)
            /\ UNCHANGED last_a
       ELSE /\ AContinues(a_out)
            /\ EndOfIteration
            /\ UNCHANGED ui_msg

\* one iteration of the loop with A speaking (lines 193-212, 234-235)
ATurn ==
    /\ pc = "loop"
    /\ IsATurn
    /\ \E outcome \in Outcomes :
        LET built == build_turn_messages(a_ctx, last_b)
            reply == call_llm(CLIENT_MODE, outcome)
        IN /\ msgs' = built.msgs
           /\ a_ctx' = built.ctx
           /\ calls' = calls + 1
           /\ IF reply.raised THEN AError ELSE ASpoke(reply.text)
    /\ UNCHANGED <<config, running, b_ctx, last_b, download, pure>>

BError_retry ==
    /\ ui_msg' = "LLM error (B)"
    /\ UNCHANGED <<pc, cause, t, slept, next_speaker>>
    /\ UNCHANGED <<transcript, generated, last_b>>

\* lines 218-220
BError ==
    /\ ui_msg' = "LLM error (B)"
    /\ Break("transport_error")
    /\ UNCHANGED <<transcript, generated, last_b>>

BContinues_stale(b_out) ==
    /\ last_b' = last_b
    /\ next_speaker' = a_name

\* lines 231-232
BContinues(b_out) ==
    /\ last_b' = b_out
    /\ next_speaker' = a_name

\* lines 222-235
BSpoke(b_out) ==
    /\ Record(Entry(b_name, b_out))
    /\ generated' = Append(generated, b_out)
    /\ LET stop == detect_stop(b_out) IN
       IF StopBreaks(stop)
       THEN /\ ui_msg' = StopMessage(stop)
            /\ Break(stop)
            /\ UNCHANGED last_b
       ELSE /\ BContinues(b_out)
            /\ EndOfIteration
            /\ UNCHANGED ui_msg

\* one iteration of the loop with B speaking (lines 214-235)
BTurn ==
    /\ pc = "loop"
    /\ ~IsATurn
    /\ \E outcome \in Outcomes :
        LET built == build_turn_messages(b_ctx, last_a)
            reply == call_llm(CLIENT_MODE, outcome)
        IN /\ msgs' = built.msgs
           /\ b_ctx' = built.ctx
           /\ calls' = calls + 1
           /\ IF reply.raised THEN BError ELSE BSpoke(reply.text)
    /\ UNCHANGED <<config, running, a_ctx, last_a, download, pure>>

\* line 237, and the script execution ends
Finish ==
    /\ pc = "halted"
    /\ running' = FALSE
    /\ pc' = "idle"
    /\ UNCHANGED <<config, transcript, locals, cause, ui_msg, history, download,
                   pure>>

\* json.dumps of a str, ensure_ascii=False: quotes, backslashes and newlines
\* are escaped, every other character is written as it is
RECURSIVE json_escape(_)
json_escape(text) ==
    IF text = <<>> THEN <<>>
    ELSE (CASE Head(text) = "\"" -> <<"\\", "\"">>
            [] Head(text) = "\\" -> <<"\\", "\\">>
            [] Head(text) = "\n" -> <<"\\", "n">>
            [] OTHER -> <<Head(text)>>) \o json_escape(Tail(text))

\* one transcript entry as json.dump writes it with indent=2; a name is
\* written as one token
json_entry(turn) ==
    <<"  {\n    \"speaker\": \"", turn.speaker, "\",\n    \"who\": \"",
      turn.who, "\",\n    \"text\": \"">>
        \o json_escape(turn.text) \o <<"\"\n  }">>

RECURSIVE json_entries(_)
json_entries(tr) ==
    IF tr = <<>> THEN <<>>
    ELSE IF Len(tr) = 1 THEN json_entry(tr[1])
    ELSE json_entry(tr[1]) \o <<",\n">> \o json_entries(Tail(tr))

\* export_transcript (lines 97-99): the text written to the file
export_transcript(tr) ==
    IF tr = <<>> THEN <<"[]">>
    ELSE <<"[\n">> \o json_entries(tr) \o <<"\n]">>

\* f"{turn['who']}: {turn['text']}" (line 253)
text_line(turn) == <<turn.who, ":", " ">> \o turn.text

RECURSIVE join_single_newline(_)
join_single_newline(lines) ==
    IF lines = <<>> THEN <<>>
    ELSE IF Len(lines) = 1 THEN lines[1]
    ELSE lines[1] \o <<"\n">> \o join_single_newline(Tail(lines))

\* "\n\n".join(text_dump) (line 254)
RECURSIVE join_blank_line(_)
join_blank_line(lines) ==
    IF lines = <<>> THEN <<>>
    ELSE IF Len(lines) = 1 THEN lines[1]
    ELSE lines[1] \o <<"\n", "\n">> \o join_blank_line(Tail(lines))

\* lines 251-254
text_dump(tr) == join_blank_line([i \in 1..Len(tr) |-> text_line(tr[i])])

\* a script execution with Export JSON clicked (lines 240, 245-248)
ExportJSON ==
    /\ api_key
    /\ pc = "idle"
    /\ transcript # <<>>
    /\ download' = [kind |-> "json", data |-> export_transcript(transcript)]
    /\ UNCHANGED <<config, session, locals, control, history, pure>>

\* a script execution with Export Plain Text clicked (lines 240, 250-255)
ExportText ==
    /\ api_key
    /\ pc = "idle"
    /\ transcript # <<>>
    /\ download' = [kind |-> "txt", data |-> text_dump(transcript)]
    /\ UNCHANGED <<config, session, locals, control, history, pure>>

Next ==
    \/ MissingKey
    \/ Reset
    \/ StartRunRefused
    \/ StartRun
    \/ ATurn
    \/ BTurn
    \/ Finish
    \/ ExportJSON
    \/ ExportText

Spec == Init /\ [][Next]_vars

\* The model invocation is a blocking call that returns or raises, and the
\* script then runs on to the end of the iteration: a turn that can be taken
\* is taken.
FairSpec == Spec /\ WF_vars(ATurn) /\ WF_vars(BTurn) /\ WF_vars(Finish)

----------------------------------------------------------------------------
(* The helper functions applied on their own, to inputs drawn from Texts *)

Fragments ==
    { <<>>, Plain, <<" ">>, <<"ß">>,
      AGREEMENT_REACHED, agreement_lower, Agreement_Mixed,
      NO_DEAL, no_deal_lower, No_Deal_Mixed,
      SubSeq(AGREEMENT_REACHED, 1, Len(AGREEMENT_REACHED) - 1),
      <<"n","o","d","e","a","l",":">> }
Texts == { f \o g : f \in Fragments, g \in Fragments }

Contexts ==
    { make_agent_context(
          OrElse(strip(s), default_system_prompt(n, A_ROLE, A_CULTURE)),
          <<"Negotiation brief:\n">> \o b) :
      s \in SysPrompts, n \in Names, b \in Briefs }

\* c and d are the two cases of one letter
CasePair(c, d) ==
    \E l \in DOMAIN UpperTable :
        \/ c = l /\ <<d>> = UpperTable[l]
        \/ d = l /\ <<c>> = UpperTable[l]

\* x and y differ at most in the case of their letters
SameModuloCase(x, y) ==
    /\ Len(x) = Len(y)
    /\ \A i \in 1..Len(x) : x[i] = y[i] \/ CasePair(x[i], y[i])

\* text holds the sentinel at some position, whatever the case of its letters
HasSentinel(text, sentinel) ==
    \E i \in 1..(Len(text) - Len(sentinel) + 1) :
        \A j \in 1..Len(sentinel) :
            \/ text[i + j - 1] = sentinel[j]
            \/ CasePair(text[i + j - 1], sentinel[j])

PureInit ==
    /\ api_key = TRUE
    /\ CLIENT_MODE = "new"
    /\ a_name = "Aiko"
    /\ b_name = "Blake"
    /\ a_sys = <<" ">>
    /\ b_sys = <<" ">>
    /\ brief = <<>>
    /\ first_speaker = a_name
    /\ max_turns = MinTurns
    /\ delay_s = 0
    /\ Idle
    /\ p_text \in Texts
    /\ p_text2 \in {y \in Texts : SameModuloCase(p_text, y)}
    /\ p_ctx \in Contexts
    /\ p_partner \in {NoText, p_text}
    /\ p_stop = Unset
    /\ p_stop2 = Unset
    /\ p_built = [msgs |-> <<>>, ctx |-> <<>>]

ApplyDetectStop ==
    /\ p_stop = Unset
    /\ p_stop' = detect_stop(p_text)
    /\ p_stop2' = detect_stop(p_text2)
    /\ UNCHANGED <<sched, p_text, p_text2, p_ctx, p_partner, p_built>>

ApplyBuild ==
    /\ p_built.msgs = <<>>
    /\ p_built' = build_turn_messages(p_ctx, p_partner)
    /\ UNCHANGED <<sched, p_text, p_text2, p_ctx, p_partner, p_stop, p_stop2>>

PureNext == ApplyDetectStop \/ ApplyBuild

PureSpec == PureInit /\ [][PureNext]_vars

----------------------------------------------------------------------------
(* Properties *)

Odd(i) == i % 2 = 1
OtherName(n) == IF n = a_name THEN b_name ELSE a_name
\* who speaks k-th in a run
SpeakerAt(k) == IF Odd(k) THEN first_speaker ELSE OtherName(first_speaker)
NoSentinel(text) ==
    ~HasSentinel(text, AGREEMENT_REACHED) /\ ~HasSentinel(text, NO_DEAL)
TextsOf(tr) == [i \in 1..Len(tr) |-> tr[i].text]
\* every model invocation of the run so far returned a text
NoFailure == calls = Len(generated)

\* C1: with two distinct names, a completed run that had no transport error
\* leaves a transcript whose consecutive entries have different "who" fields,
\* each one of the two names, the first being the configured first speaker.
C1_Alternation ==
    (pc = "halted" /\ a_name # b_name /\ cause # "transport_error") =>
        /\ \A i \in 1..Len(transcript) : transcript[i].who \in {a_name, b_name}
        /\ \A i \in 1..(Len(transcript) - 1) :
               transcript[i].who # transcript[i + 1].who
        /\ transcript # <<>> => transcript[1].who = first_speaker

C1_Witness ==
    /\ pc = "halted"
    /\ cause = "turn_limit"
    /\ a_name # b_name
    /\ first_speaker = b_name
    /\ Len(transcript) = 3
    /\ transcript[2].who = a_name

\* C2: a run in which no invocation failed and no returned text holds a
\* sentinel ends with exactly max_turns entries and cause turn-limit-exhausted.
C2_TurnBudget ==
    (pc = "halted" /\ NoFailure /\ \A i \in 1..Len(generated) : NoSentinel(generated[i])) =>
        /\ Len(transcript) = max_turns
        /\ cause = "turn_limit"

C2_Witness ==
    /\ pc = "halted"
    /\ cause = "turn_limit"
    /\ max_turns = 3
    /\ Len(transcript) = 3
    /\ first_speaker = b_name
    /\ a_name # b_name

\* C3: no turn is started once a returned text holds a sentinel, and the run
\* whose k-th returned text is the first to hold one ends with exactly k
\* entries, the k-th being that text under its speaker's name, and with the
\* detector's result as cause.
C3_EarlyStop ==
    \A k \in 1..Len(generated) :
        ~NoSentinel(generated[k]) =>
            /\ pc # "loop"
            /\ pc = "halted" =>
                /\ Len(transcript) = k
                /\ transcript[k] = Entry(SpeakerAt(k), generated[k])
                /\ cause = detect_stop(generated[k])
                /\ cause \in {"agreement", "no_deal"}

C3_Witness ==
    /\ pc = "halted"
    /\ cause = "agreement"
    /\ max_turns = 4
    /\ first_speaker = a_name
    /\ a_name # b_name
    /\ Len(transcript) = 3
    /\ transcript[3].who = a_name
    /\ HasSentinel(transcript[3].text, AGREEMENT_REACHED)

\* a step in which a model invocation is made and raises
FailedInvocation == calls' = calls + 1 /\ generated' = generated

FailureHalts ==
    FailedInvocation =>
        /\ transcript' = transcript
        /\ Len(transcript') = calls' - 1
        /\ pc' = "halted"
        /\ cause' = "transport_error"

\* C4: the step in which the k-th invocation fails leaves the transcript as it
\* was, with k-1 entries, and halts the run with cause transport-error.
C4_TransportFailure == [][FailureHalts]_vars

C4_Witness ==
    /\ pc = "halted"
    /\ cause = "transport_error"
    /\ calls = 2
    /\ a_name # b_name
    /\ first_speaker = a_name
    /\ Len(transcript) = 1
    /\ transcript[1].who = a_name
    /\ ui_msg = "LLM error (B)"

\* C5: detect_stop returns agreement for a text holding the agreement sentinel
\* (also when it holds the no-deal sentinel too), no_deal for a text holding
\* the no-deal sentinel only, and none for a text holding neither; a sentinel
\* is matched whatever the case of its letters.
C5_Classification ==
    p_stop # Unset =>
        p_stop = IF HasSentinel(p_text, AGREEMENT_REACHED) THEN "agreement"
                 ELSE IF HasSentinel(p_text, NO_DEAL) THEN "no_deal"
                 ELSE None

C5_Witness ==
    /\ p_stop = "agreement"
    /\ HasSentinel(p_text, NO_DEAL)
    /\ HasSentinel(p_text, AGREEMENT_REACHED)

\* C6: two texts that differ only in the case of their letters get the same
\* result from detect_stop.
C6_CaseInsensitive ==
    (p_stop # Unset /\ SameModuloCase(p_text, p_text2)) => p_stop = p_stop2

C6_Witness ==
    /\ p_stop = "no_deal"
    /\ p_stop2 = "no_deal"
    /\ p_text # p_text2
    /\ p_text # upper(p_text)
    /\ p_text2 # upper(p_text2)

Built == p_built.msgs # <<>>
WithOneMore(ctx, text) ==
    /\ Len(p_built.msgs) = Len(ctx) + 1
    /\ SubSeq(p_built.msgs, 1, Len(ctx)) = ctx
    /\ p_built.msgs[Len(ctx) + 1] = [role |-> "user", content |-> text]

\* C7 as stated: with no partner utterance the result equals ctx, and with
\* any partner utterance, the empty string included, it is ctx followed by
\* one user message holding that utterance.
C7_Original ==
    Built =>
        IF p_partner = NoText THEN p_built.msgs = p_ctx
        ELSE WithOneMore(p_ctx, p_partner)

\* C7 as amended: with no partner utterance or the empty string the result
\* equals ctx, and with any non-empty partner utterance it is ctx followed by
\* one user message holding that utterance.
C7_BuildTurnMessages ==
    Built =>
        IF p_partner = NoText \/ p_partner = <<>> THEN p_built.msgs = p_ctx
        ELSE WithOneMore(p_ctx, p_partner)

C7_Witness ==
    /\ Built
    /\ p_partner = <<>>
    /\ p_built.msgs = p_ctx

Extends ==
    pc \in {"loop", "halted"} =>
        /\ \/ transcript' = transcript
           \/ /\ Len(transcript') = Len(transcript) + 1
              /\ SubSeq(transcript', 1, Len(transcript)) = transcript
        /\ TextsOf(transcript') = generated'

\* C8: from the clearing at run start to the end of the run, every step leaves
\* the transcript as it was or adds one entry at its end, and the texts of the
\* transcript are the texts returned, in the order returned.
C8_AppendOnly == [][Extends]_vars

C8_Witness ==
    /\ pc = "loop"
    /\ Len(transcript) = 3
    /\ transcript[1].text # transcript[2].text

Refuses ==
    CLIENT_MODE = None =>
        /\ running' = FALSE
        /\ calls' = calls
        /\ pc' = "idle"
        /\ transcript' = transcript
        /\ ui_msg' \in {"OpenAI client not initialized", "Session reset.",
                        "Missing OpenAI API key"}

\* C9: while the client is not initialized, no step sets the running flag,
\* makes a model invocation, starts the loop or changes the transcript, and
\* a Start Run request only shows an error.
C9_RefusesWithoutClient == [][Refuses]_vars

C9_Witness ==
    /\ api_key
    /\ CLIENT_MODE = None
    /\ ui_msg = "OpenAI client not initialized"
    /\ ~running

\* C10: during a run and at loop exit each agent context is the two messages
\* built before the run: the system instruction, then the brief under its
\* label as a user message.
C10_ContextsImmutable ==
    pc \in {"loop", "halted"} =>
        /\ a_ctx = << [role |-> "system", content |-> a_system],
                      [role |-> "user",
                       content |-> <<"Negotiation brief:\n">> \o brief] >>
        /\ b_ctx = << [role |-> "system", content |-> b_system],
                      [role |-> "user",
                       content |-> <<"Negotiation brief:\n">> \o brief] >>

C10_Witness ==
    /\ pc = "halted"
    /\ Len(transcript) = 3
    /\ Len(msgs) = 3
    /\ a_name # b_name

\* the number of characters before the i-th record of the plain-text form
RECURSIVE Before(_, _)
Before(tr, i) ==
    IF i = 1 THEN 0 ELSE Before(tr, i - 1) + Len(tr[i - 1].text) + 5

\* data is one "{who}: {text}" record per entry of tr, in the order of tr,
\* with one blank line between two records and nothing else
TxtShape(data, tr) ==
    /\ Len(data) = Before(tr, Len(tr) + 1) - 2
    /\ \A i \in 1..Len(tr) :
        LET o == Before(tr, i)
            n == Len(tr[i].text)
        IN /\ data[o + 1] = tr[i].who
           /\ data[o + 2] = ":"
           /\ data[o + 3] = " "
           /\ SubSeq(data, o + 4, o + 3 + n) = tr[i].text
           /\ i < Len(tr) => data[o + 4 + n] = "\n" /\ data[o + 5 + n] = "\n"

ExportIsProjection ==
    download'.kind # "none" =>
        /\ transcript' = transcript
        /\ download'.kind = "txt" => TxtShape(download'.data, transcript)

\* C11: a step that produces the JSON or the plain-text export leaves the
\* transcript as it was, and the plain-text form is one "{who}: {text}" record
\* per transcript entry, in transcript order, separated by one blank line.
C11_ExportProjection == [][ExportIsProjection]_vars

C11_Witness ==
    /\ download.kind = "txt"
    /\ Len(transcript) = 3
    /\ transcript[1].text # transcript[2].text
    /\ a_name # b_name

InRun == pc \in {"loop", "halted"}
UserMessage(text) == [role |-> "user", content |-> text]
\* the context of the agent that speaks k-th
CtxOf(k) == IF SpeakerAt(k) = a_name THEN a_ctx ELSE b_ctx

\* C12 as stated: the message set of the first invocation is the speaker's
\* context, and the message set of every later invocation is the speaker's
\* context followed by one user message holding the text of the preceding
\* transcript entry, whatever that text is.
C12_Original ==
    (InRun /\ calls >= 1) =>
        msgs = IF calls = 1 THEN CtxOf(1)
               ELSE Append(CtxOf(calls),
                           UserMessage(transcript[calls - 1].text))

\* C12 as amended: the message set of the first invocation is the speaker's
\* context; the message set of a later invocation is the speaker's context
\* followed by one user message holding the text of the preceding transcript
\* entry when the two names differ and that text is not empty, and the
\* speaker's context alone when that text is empty or the two names are equal.
C12_Threading ==
    (InRun /\ calls >= 1) =>
        msgs = IF calls = 1 THEN CtxOf(1)
               ELSE IF a_name # b_name /\ transcript[calls - 1].text # <<>>
               THEN Append(CtxOf(calls),
                           UserMessage(transcript[calls - 1].text))
               ELSE CtxOf(calls)

C12_Witness ==
    /\ InRun
    /\ calls = 3
    /\ a_name # b_name
    /\ transcript[1].text # <<>>
    /\ transcript[2].text = <<>>
    /\ msgs = CtxOf(3)

\* the entries of agent A (or of agent B) among the first n
EntriesOf(isA, n) == {i \in 1..n : (SpeakerAt(i) = a_name) = isA}
Latest(S) ==
    IF S = {} THEN NoText
    ELSE transcript[CHOOSE i \in S : \A j \in S : j <= i].text
\* the entries that did not trigger a stop
Unstopped ==
    IF transcript # <<>> /\ ~NoSentinel(transcript[Len(transcript)].text)
    THEN Len(transcript) - 1
    ELSE Len(transcript)

\* C13 as stated: during a run and at loop exit each agent's last utterance
\* is the text of its most recent transcript entry, stopping entry included,
\* and null when it has none.
C13_Original ==
    InRun =>
        /\ last_a = Latest(EntriesOf(TRUE, Len(transcript)))
        /\ last_b = Latest(EntriesOf(FALSE, Len(transcript)))

\* C13 as amended: during a run and at loop exit each agent's last utterance
\* is the text of its most recent transcript entry that did not trigger a
\* stop, and null when it has none.
C13_LastUtterance ==
    InRun =>
        /\ last_a = Latest(EntriesOf(TRUE, Unstopped))
        /\ last_b = Latest(EntriesOf(FALSE, Unstopped))

C13_Witness ==
    /\ pc = "halted"
    /\ cause = "agreement"
    /\ a_name # b_name
    /\ first_speaker = a_name
    /\ Len(transcript) = 3
    /\ transcript[1].text = <<>>
    /\ last_a = transcript[1].text
    /\ last_b = transcript[2].text

\* C14: a run whose max_turns-th returned text holds a sentinel ends with the
\* detector's result as cause, and a run ends with cause turn-limit-exhausted
\* only with max_turns entries of which the last holds no sentinel.
C14_StopBeatsBudget ==
    pc = "halted" =>
        /\ (Len(generated) = max_turns /\ ~NoSentinel(generated[max_turns])) =>
               /\ cause = detect_stop(generated[max_turns])
               /\ cause \in {"agreement", "no_deal"}
        /\ cause = "turn_limit" =>
               /\ Len(transcript) = max_turns
               /\ NoSentinel(transcript[max_turns].text)

C14_Witness ==
    /\ pc = "halted"
    /\ max_turns = 3
    /\ Len(transcript) = 3
    /\ cause = "no_deal"
    /\ transcript[3].who = a_name
    /\ a_name # b_name

\* a step in which a model invocation is made
Invocation == calls' = calls + 1

NoInvocationAfterHalt ==
    Invocation =>
        /\ pc = "loop"
        /\ cause = "none"
        /\ NoFailure
        /\ \A i \in 1..Len(generated) : NoSentinel(generated[i])

CallCount ==
    InRun =>
        /\ calls = Len(transcript) + (IF cause = "transport_error" THEN 1 ELSE 0)
        /\ calls <= max_turns

\* C15: in every run the number of model invocations is the number of
\* transcript entries, plus one if the run halted with transport-error, and is
\* at most max_turns; no invocation is made after a failed invocation or
\* after a returned text that holds a sentinel.
C15_OneRequestPerTurn == []CallCount /\ [][NoInvocationAfterHalt]_vars

C15_Witness ==
    /\ pc = "halted"
    /\ cause = "transport_error"
    /\ calls = 3
    /\ Len(transcript) = 2
    /\ max_turns = 4
    /\ ui_msg = "LLM error (B)"

Causes == {"agreement", "no_deal", "transport_error", "turn_limit"}

HaltedIsFrozen == pc = "halted" => transcript' = transcript

\* the loop is at the top of iteration t, one of max_turns, and every
\* iteration before it made one invocation
WithinBudget == pc = "loop" => (t < max_turns /\ calls = t)

HaltedHasCause == (pc = "halted") <=> (cause \in Causes /\ pc # "idle")

\* C16: every started run reaches the halted state, after at most max_turns
\* iterations; a halted run has exactly one of the four causes, and a run in
\* the loop has none; once the run is halted its transcript does not change.
C16_Termination ==
    /\ (pc = "loop") ~> (pc = "halted")
    /\ []WithinBudget
    /\ []HaltedHasCause
    /\ [][HaltedIsFrozen]_vars

C16_Witness ==
    /\ pc = "halted"
    /\ cause = "turn_limit"
    /\ max_turns = 4
    /\ t = 4
    /\ first_speaker = b_name
    /\ a_name # b_name

\* what a run records for the texts returned so far
ExpectedTranscript ==
    [i \in 1..Len(generated) |-> Entry(SpeakerAt(i), generated[i])]
LastHasSentinel ==
    generated # <<>> /\ ~NoSentinel(generated[Len(generated)])
\* how a halted run ended, from the results of its invocations alone
ExpectedCause ==
    IF ~NoFailure THEN "transport_error"
    ELSE IF LastHasSentinel THEN detect_stop(generated[Len(generated)])
    ELSE "turn_limit"

\* C17: the transcript, the speaker order, the point at which the run halts
\* and its cause are determined by the configuration other than the delay and
\* by the results of the model invocations: the run goes on exactly while no
\* invocation has failed, no returned text holds a sentinel and fewer than
\* max_turns texts were returned.  The delay only decides whether the run
\* pauses after an iteration.
C17_DelayNeutral ==
    InRun =>
        /\ transcript = ExpectedTranscript
        /\ \A i \in 1..(Len(generated) - 1) : NoSentinel(generated[i])
        /\ pc = "loop" <=>
               (NoFailure /\ ~LastHasSentinel /\ Len(generated) < max_turns)
        /\ pc = "halted" => cause = ExpectedCause
        /\ slept = IF delay_s > 0 THEN t ELSE 0

C17_Witness ==
    /\ pc = "halted"
    /\ delay_s > 0
    /\ slept = 3
    /\ max_turns = 4
    /\ cause = "agreement"
    /\ Len(transcript) = 4

\* a step in which a model invocation is made goes by next_speaker
Dispatch ==
    Invocation =>
        IF next_speaker = a_name
        THEN /\ msgs' = build_turn_messages(a_ctx, last_b).msgs
             /\ UNCHANGED <<b_ctx, last_b>>
             /\ transcript' # transcript =>
                    transcript'[Len(transcript')].who = a_name
        ELSE /\ msgs' = build_turn_messages(b_ctx, last_a).msgs
             /\ UNCHANGED <<a_ctx, last_a>>
             /\ transcript' # transcript =>
                    transcript'[Len(transcript')].who = b_name

EqualNames ==
    (a_name = b_name /\ InRun) =>
        /\ next_speaker = a_name
        /\ last_b = NoText
        /\ calls >= 1 => msgs = a_ctx
        /\ \A i \in 1..Len(transcript) : transcript[i].who = a_name

\* C18: every turn invokes A when next_speaker equals A's name and B
\* otherwise; with two equal names every turn is A's, under A's name and with
\* A's context alone as message set, and last_b stays null.
C18_DispatchByName == []EqualNames /\ [][Dispatch]_vars

C18_Witness ==
    /\ a_name = b_name
    /\ pc = "halted"
    /\ cause = "turn_limit"
    /\ Len(transcript) = 3
    /\ a_ctx # b_ctx
    /\ msgs = a_ctx
    /\ last_a = transcript[3].text

\* C19: at the start of a turn and at loop exit detect_stop is none for every
\* transcript entry but the last, and is not none for the last exactly when
\* the run halted with cause agreement or no-deal.
C19_SentinelOnlyLast ==
    InRun =>
        /\ \A i \in 1..(Len(transcript) - 1) :
               detect_stop(transcript[i].text) = None
        /\ (cause \in {"agreement", "no_deal"}) <=>
               /\ transcript # <<>>
               /\ detect_stop(transcript[Len(transcript)].text) # None

C19_Witness ==
    /\ pc = "halted"
    /\ cause = "no_deal"
    /\ Len(transcript) = 3
    /\ detect_stop(transcript[3].text) = "no_deal"
    /\ detect_stop(transcript[2].text) = None

StartClears ==
    (pc = "idle" /\ pc' = "loop") =>
        /\ transcript' = <<>>
        /\ last_a' = NoText
        /\ last_b' = NoText
        /\ calls' = 0
        /\ running'

OnlyThisRun ==
    /\ transcript = <<>> \/ transcript = ExpectedTranscript
    /\ running <=> InRun

\* C20: starting a run empties the transcript and sets both last utterances
\* to null before the first invocation; the transcript is always empty or
\* the entries of the texts returned in the most recent started run; the
\* running flag is true during a run and false after its exit.
C20_RunIsolation == []OnlyThisRun /\ [][StartClears]_vars

C20_Witness ==
    /\ pc = "idle"
    /\ ~running
    /\ cause = "transport_error"
    /\ Len(transcript) = 2
    /\ transcript = ExpectedTranscript
    /\ download.kind = "json"

====
